---- MODULE Spec2Model ----
(***************************************************************************)
(* A model of cluster/job.py: job submission to slurm, torque or a local   *)
(* multiprocessing pool, and the cleaning of the files it leaves behind.   *)
(*                                                                         *)
(* The caller is one thread that calls the module's functions one at a     *)
(* time; pc is its position.  A function is one action up to the point     *)
(* where it blocks on the outside world: submit_file's retry loop is a     *)
(* step per check_output call and a step per sleep.  The workers of the    *)
(* multiprocessing pool run beside the caller.                             *)
(*                                                                         *)
(* Python values are records [t, n, s, l]: t is the type, n the value of   *)
(* an int, s the value of a str, l the items of a list or tuple.  Text     *)
(* handed to the backend is a TLA+ string; text that is taken apart (the   *)
(* command's standard output) is a sequence of characters; a file name is  *)
(* the sequence of its dot-separated components.                           *)
(***************************************************************************)
EXTENDS Integers, Sequences, FiniteSets, TLC

VARIABLES
    QUEUE,      \* the backend of this process: "slurm", "torque" or "normal"
    POOL,       \* the module global POOL: 0 is None, else an index of pools
    pools,      \* the Pool objects created so far: the size of each
    handles,    \* the results of apply_async: [pool, state] per enqueued job
    fs,         \* the file system: directory -> file name -> kind
    pc,         \* where the caller is
    call,       \* the function being called and its arguments
    args,       \* submit_file's args: the command line handed to check_output
    count,      \* submit_file's count
    slept,      \* seconds slept by the current call
    stdout,     \* the standard output of the last command that exited zero
    result,     \* what the last call returned or raised
    deleted,    \* the list clean returned
    trace,      \* the outside calls the current call has made, in order
    pre,        \* the state of the side effects when the current call began
    scripts,    \* the Script objects of the process: [dir, name, script, written]
    content,    \* the text of the regular files: directory -> file name -> text
    value,      \* the object the last call returned, when it is not a number
    invoked,    \* the calls the function runner has made of the callable
    pickled     \* what the function runner has dumped in its output file

\* What the objects and the function runner add to the state of the module.
objects == <<scripts, content, value, invoked, pickled>>

vars == <<QUEUE, POOL, pools, handles, fs, pc, call, args, count, slept,
          stdout, result, deleted, trace, pre, scripts, content, value,
          invoked, pickled>>

----------------------------------------------------------------------------
(* Bounds of the model.                                                    *)

MaxDeps == 2

MaxOut == 3

MaxJobs == 3

MaxThreads == 1

MaxFiles == 3

MaxScripts == 2

\* The size multiprocessing gives Pool(): the number of cores of the machine.
CpuCount == 2

----------------------------------------------------------------------------
(* Python values.                                                          *)

None == [t |-> "None", n |-> 0, s |-> "", l |-> <<>>]

PyInt(n) == [t |-> "int", n |-> n, s |-> "", l |-> <<>>]

PyStr(s) == [t |-> "str", n |-> 0, s |-> s, l |-> <<>>]

PyFloat(repr) == [t |-> "float", n |-> 0, s |-> repr, l |-> <<>>]

\* A Job object; n is the identifier the backend gave the job when it was
\* submitted (0: not submitted).  The class stores no identifier: n is
\* history the object itself does not hold.
PyJob(id) == [t |-> "Job", n |-> id, s |-> "", l |-> <<>>]

PyList(items) == [t |-> "list", n |-> 0, s |-> "", l |-> items]

PyTuple(items) == [t |-> "tuple", n |-> 0, s |-> "", l |-> items]

PySet(items) == [t |-> "set", n |-> 0, s |-> "", l |-> items]

PyDict(items) == [t |-> "dict", n |-> 0, s |-> "", l |-> items]

PyBool(b) == [t |-> "bool", n |-> IF b THEN 1 ELSE 0, s |-> "", l |-> <<>>]

\* A function object; s is its name.
PyFunction(name) == [t |-> "function", n |-> 0, s |-> name, l |-> <<>>]

\* An exception object; s is its class.
PyError(class) == [t |-> "error", n |-> 0, s |-> class, l |-> <<>>]

\* A path as a call returns it: the directory and the file name in it.
PyPath(dir, name) == [t |-> "path", n |-> 0, s |-> dir, l |-> name]

\* The truth value Python's `if v:` gives a value.
Truthy(v) ==
    CASE v.t = "None" -> FALSE
      [] v.t \in {"int", "bool"} -> v.n # 0
      [] v.t = "str" -> v.s # ""
      [] v.t \in {"list", "tuple", "set", "dict"} -> v.l # <<>>
      [] OTHER -> TRUE

Digits == <<"0", "1", "2", "3", "4", "5", "6", "7", "8", "9">>

RECURSIVE NatStr(_)
NatStr(n) ==
    IF n < 10 THEN Digits[n + 1] ELSE NatStr(n \div 10) \o Digits[(n % 10) + 1]

\* object.__repr__ of a Job, which defines neither __str__ nor __repr__.
JobRepr == "<cluster.job.Job object at 0x7f>"

\* str(v) for the values a dependency list can hold.
str(v) ==
    CASE v.t = "int" -> IF v.n < 0 THEN "-" \o NatStr(0 - v.n) ELSE NatStr(v.n)
      [] v.t = "str" -> v.s
      [] v.t = "float" -> v.s
      [] v.t = "Job" -> JobRepr
      [] v.t = "None" -> "None"
      [] OTHER -> "[...]"

\* sep.join(items) for a sequence of strings.
RECURSIVE join(_, _)
join(sep, items) ==
    IF items = <<>> THEN ""
    ELSE IF Len(items) = 1 THEN items[1]
    ELSE items[1] \o sep \o join(sep, Tail(items))

----------------------------------------------------------------------------
(* Text taken apart: sequences of characters.                              *)

Whitespace == {" ", "\n", "\t"}

DigitChars == {Digits[i] : i \in 1..10}

DigitVal(c) == (CHOOSE i \in 1..10 : Digits[i] = c) - 1

\* s.rstrip()
RECURSIVE rstrip(_)
rstrip(s) ==
    IF s # <<>> /\ s[Len(s)] \in Whitespace
    THEN rstrip(SubSeq(s, 1, Len(s) - 1))
    ELSE s

\* s.lstrip()
RECURSIVE lstrip(_)
lstrip(s) ==
    IF s # <<>> /\ s[1] \in Whitespace THEN lstrip(Tail(s)) ELSE s

\* s.split(sep)[-1] for a one-character sep: what follows the last sep.
SplitLast(s, sep) ==
    LET at == {i \in 1..Len(s) : s[i] = sep}
    IN  IF at = {} THEN s
        ELSE SubSeq(s, (CHOOSE i \in at : \A j \in at : j <= i) + 1, Len(s))

\* s.split(sep)[0] for a one-character sep: what precedes the first sep.
SplitFirst(s, sep) ==
    LET at == {i \in 1..Len(s) : s[i] = sep}
    IN  IF at = {} THEN s
        ELSE SubSeq(s, 1, (CHOOSE i \in at : \A j \in at : i <= j) - 1)

RECURSIVE DecimalValue(_)
DecimalValue(s) ==
    IF s = <<>> THEN 0
    ELSE 10 * DecimalValue(SubSeq(s, 1, Len(s) - 1)) + DigitVal(s[Len(s)])

\* int(s): the text with the white space around it dropped must be decimal
\* digits (the characters of the model hold no sign and no underscore);
\* anything else is a ValueError.
int(s) ==
    LET body == lstrip(rstrip(s))
    IN  IF body # <<>> /\ \A i \in 1..Len(body) : body[i] \in DigitChars
        THEN [ok |-> TRUE, val |-> DecimalValue(body)]
        ELSE [ok |-> FALSE, val |-> 0]

\* A parse that takes the first token of the output, not the last.
SlurmJobIdFirst(out) == int(SplitFirst(rstrip(out), " "))

\* slurm: int(check_output(args).decode().rstrip().split(' ')[-1])
SlurmJobId(out) == int(SplitLast(rstrip(out), " "))

\* torque: int(check_output(args).decode().rstrip().split('.')[0])
TorqueJobId(out) == int(SplitFirst(rstrip(out), "."))

----------------------------------------------------------------------------
(* The caller.                                                             *)

\* Program constants of the retry loop: `if count == 5` and `sleep(1)`.
MaxRetries == 5

RetryPause == 1

\* The caller is free to make a call: no call is under way.
CallerFree == pc \in {"idle", "returned", "raised"}

Returned(val) == [kind |-> "returned", err |-> "", val |-> val]

Raised(err, val) == [kind |-> "raised", err |-> err, val |-> val]

\* The resource arguments of a job, none of them given.
NoKw == [partition |-> None, time |-> None, mem |-> None, modules |-> None]

NoCall ==
    [fn |-> "", script |-> "", deps |-> None, threads |-> None, dir |-> "",
     obj |-> 0, overwrite |-> FALSE, name |-> "", command |-> None,
     args |-> None, kw |-> NoKw, outcome |-> None]

\* What a call can change outside itself, as it is when the call begins.
SideEffects ==
    [fs |-> fs, POOL |-> POOL, pools |-> pools, enqueued |-> Len(handles),
     content |-> content, scripts |-> scripts]

----------------------------------------------------------------------------
(* submit_file                                                             *)

\* "Check dependencies": the value left in `dependencies`, or the raise.
CheckDependencies(dependencies) ==
    IF ~Truthy(dependencies) THEN [raised |-> FALSE, deps |-> dependencies]
    ELSE LET listed == IF dependencies.t \in {"str", "int"}
                       THEN PyList(<<dependencies>>)
                       ELSE dependencies
         IN  IF listed.t \notin {"list", "tuple"}
             THEN [raised |-> TRUE, deps |-> dependencies]
             ELSE [raised |-> FALSE,
                   deps |-> PyList([i \in 1..Len(listed.l) |-> PyStr(str(listed.l[i]))])]

\* A slurm flag that lists the jobs the way torque's does.
SlurmFlagCommas(deps) ==
    "--dependency=afterok:" \o join(",", [i \in 1..Len(deps.l) |-> str(deps.l[i])])

SlurmFlag(deps) ==
    "--dependency=afterok:" \o join(":", [i \in 1..Len(deps.l) |-> str(deps.l[i])])

TorqueFlag(deps) ==
    "-W depend=" \o join(",", [i \in 1..Len(deps.l) |-> "afterok:" \o deps.l[i].s])

\* The command line of the backend's submit command.
SubmitArgs(queue, deps, script_file) ==
    IF queue = "slurm"
    THEN IF Truthy(deps) THEN <<"sbatch", SlurmFlag(deps), script_file>>
         ELSE <<"sbatch", script_file>>
    ELSE IF Truthy(deps) THEN <<"qsub", TorqueFlag(deps), script_file>>
         ELSE <<"qsub", script_file>>

\* A submit_file that makes a pool of its own at every call.
PoolAlwaysMissing(pool) == TRUE

\* `if not POOL`
PoolMissing(pool) == pool = 0

\* A pool that is always made with Pool(), whatever threads is.
PoolSizeDefault(threads) == CpuCount

\* `Pool(threads) if threads else Pool()`: the size of the pool created.
PoolSize(threads) == IF Truthy(threads) THEN threads.n ELSE CpuCount

\* submit_file up to its first command: the queue check, the dependencies,
\* the command line; in normal mode the whole call.  `usable` is whether
\* queue.check_queue() passes.
submit_file(script_file, dependencies, threads, usable) ==
    /\ CallerFree
    /\ call' = [NoCall EXCEPT !.fn = "submit_file", !.script = script_file,
                                !.deps = dependencies, !.threads = threads]
    /\ pre' = SideEffects
    /\ slept' = 0
    /\ count' = 0
    /\ stdout' = <<>>
    /\ deleted' = <<>>
    /\ UNCHANGED <<QUEUE, fs>>
    /\ UNCHANGED objects
    /\ IF ~usable
       THEN /\ trace' = <<"check_queue raised">>
            /\ pc' = "raised"
            /\ result' = Raised("check_queue", 0)
            /\ args' = <<>>
            /\ UNCHANGED <<POOL, pools, handles>>
       ELSE LET checked == CheckDependencies(dependencies)
            IN  /\ trace' = <<"check_queue">>
                /\ IF checked.raised
                   THEN /\ pc' = "raised"
                        /\ result' = Raised("Exception", 0)
                        /\ args' = <<>>
                        /\ UNCHANGED <<POOL, pools, handles>>
                   ELSE IF QUEUE \in {"slurm", "torque"}
                   THEN /\ args' = SubmitArgs(QUEUE, checked.deps, script_file)
                        /\ pc' = "check_output"
                        /\ result' = [kind |-> "none", err |-> "", val |-> 0]
                        /\ UNCHANGED <<POOL, pools, handles>>
                   ELSE /\ IF PoolMissing(POOL)
                           THEN /\ pools' = Append(pools, PoolSize(threads))
                                /\ POOL' = Len(pools) + 1
                           ELSE UNCHANGED <<POOL, pools>>
                        /\ handles' = Append(handles, [pool |-> POOL', state |-> "queued"])
                        /\ args' = <<"bash " \o script_file>>
                        /\ pc' = "returned"
                        /\ result' = Returned(Len(handles) + 1)

\* A loop that gives up one failure early.
RetriesExhaustedEarly(c) == c = MaxRetries - 1

\* A loop that allows one failure more.
RetriesExhaustedLate(c) == c = MaxRetries + 1

\* `if count == 5: raise`
RetriesExhausted(c) == c = MaxRetries

\* A handler that catches every error, as `except Exception:` would.
CaughtAny(err) == TRUE

\* `except CalledProcessError:` takes the errors of that class and no
\* other: the ValueError of int() passes through it.
Caught(err) == err = "CalledProcessError"

\* One turn of the `while True` loop: check_output(args) and what follows
\* it.  `exit0` is whether the command exits zero, `out` its standard output.
check_output(exit0, out) ==
    /\ pc = "check_output"
    /\ UNCHANGED <<QUEUE, POOL, pools, handles, fs, call, args, slept, deleted, pre>>
    /\ UNCHANGED objects
    /\ LET job == IF QUEUE = "slurm" THEN SlurmJobId(out) ELSE TorqueJobId(out)
           \* what the statement in the `try` raises, "" when it ends
           err == IF ~exit0 THEN "CalledProcessError"
                  ELSE IF ~job.ok THEN "ValueError" ELSE ""
       IN  /\ trace' = Append(trace, IF exit0 THEN "exit 0" ELSE "exit 1")
           /\ stdout' = IF exit0 THEN out ELSE stdout
           /\ IF err = ""
              THEN /\ pc' = "returned"
                   /\ result' = Returned(job.val)
                   /\ count' = count
              ELSE IF ~Caught(err)
              THEN /\ pc' = "raised"
                   /\ result' = Raised(err, 0)
                   /\ count' = count
              ELSE IF RetriesExhausted(count)
              THEN /\ pc' = "raised"
                   \* the error of this very call, re-raised
                   /\ result' = Raised(err, IF exit0 THEN 0 ELSE count + 1)
                   /\ count' = count
              ELSE /\ count' = count + 1
                   /\ pc' = "sleep"
                   /\ result' = result

\* sleep(1); continue
sleep ==
    /\ pc = "sleep"
    /\ slept' = slept + RetryPause
    /\ trace' = Append(trace, "sleep")
    /\ pc' = "check_output"
    /\ UNCHANGED <<QUEUE, POOL, pools, handles, fs, call, args, count, stdout,
                   result, deleted, pre>>
    /\ UNCHANGED objects

----------------------------------------------------------------------------
(* The workers of a multiprocessing pool: a pool of size K runs the jobs   *)
(* given to apply_async in the order they were given, K at a time.         *)

InState(pool, state) ==
    {h \in 1..Len(handles) : handles[h].pool = pool /\ handles[h].state = state}

\* An idle worker of the job's pool takes the job, the oldest one waiting.
worker_take(h) ==
    /\ h \in 1..Len(handles)
    /\ handles[h].state = "queued"
    /\ \A g \in InState(handles[h].pool, "queued") : h <= g
    /\ Cardinality(InState(handles[h].pool, "running")) < pools[handles[h].pool]
    /\ handles' = [handles EXCEPT ![h].state = "running"]
    /\ UNCHANGED <<QUEUE, POOL, pools, fs, pc, call, args, count, slept, stdout,
                   result, deleted, trace, pre>>
    /\ UNCHANGED objects

\* run.cmd returns: the job's result is ready.
worker_done(h) ==
    /\ h \in 1..Len(handles)
    /\ handles[h].state = "running"
    /\ handles' = [handles EXCEPT ![h].state = "done"]
    /\ UNCHANGED <<QUEUE, POOL, pools, fs, pc, call, args, count, slept, stdout,
                   result, deleted, trace, pre>>
    /\ UNCHANGED objects

----------------------------------------------------------------------------
(* submit and make_job_file                                                *)

\* A call that raises `err` in its first statement: it makes no outside
\* call, not even the queue check.
RaiseAtOnce(fn, err) ==
    /\ CallerFree
    /\ call' = [NoCall EXCEPT !.fn = fn]
    /\ pre' = SideEffects
    /\ pc' = "raised"
    /\ trace' = <<>>
    /\ result' = Raised(err, 0)
    /\ args' = <<>>
    /\ count' = 0
    /\ slept' = 0
    /\ stdout' = <<>>
    /\ deleted' = <<>>
    /\ UNCHANGED <<QUEUE, POOL, pools, handles, fs>>
    /\ UNCHANGED objects

\* submit: its first statement is not a docstring but the expression
\* """...{arginfo}...""".format(ARGINFO), evaluated at every call: the
\* template names the field arginfo and format is given no keyword, so the
\* call raises KeyError before queue.check_queue(), and never reaches
\* make_job_file or submit_file.
submit == RaiseAtOnce("submit", "KeyError")

\* make_job_file: the same first statement, the same KeyError, before the
\* queue check, before a Job is built or a file written.
make_job_file == RaiseAtOnce("make_job_file", "KeyError")

----------------------------------------------------------------------------
(* clean                                                                   *)

\* The current working directory of the process, and another directory.
Cwd == "/cwd"

Dirs == {"/cwd", "/other"}

\* File names, as their dot-separated components: a.cluster.out is
\* <<"a", "cluster", "out">>.
Names ==
    { <<"a", "cluster", "out">>, <<"a", "cluster", "err">>, <<"a", "cluster">>,
      <<"a", "cluster", "sbatch">>, <<"a", "cluster", "script">>,
      <<"a", "cluster", "qsub">>, <<"a", "script">>, <<"b", "txt">>,
      <<"acluster">> }

\* os.path.abspath(path), for "." and for absolute paths.
abspath(path) == IF path = "." THEN Cwd ELSE path

\* The extensions clean looks for, each without its leading dot.
Extensions(queue) ==
    <<  <<"cluster", "err">>, <<"cluster", "out">> >> \o
    ( CASE queue = "normal" -> << <<"cluster">> >>
        [] queue = "slurm" -> << <<"cluster", "sbatch">>, <<"cluster", "script">> >>
        [] queue = "torque" -> << <<"cluster", "qsub">> >>
        [] OTHER -> << >> )

\* f.endswith('.' + extension): the last components of f are those of the
\* extension, and something (the leading dot at least) precedes them.
endswith(f, extension) ==
    /\ Len(f) > Len(extension)
    /\ SubSeq(f, Len(f) - Len(extension) + 1, Len(f)) = extension

\* os.listdir(os.path.abspath(directory)): the names in the directory.
listdir(directory) == {n \in Names : fs[directory][n] # "absent"}

\* os.path.isfile(i) for a bare name i: the name is looked up in the current
\* working directory, whatever directory it was listed from.
isfile(i) == fs[Cwd][i] = "file"

\* The `for f in files: for extension in extensions:` loop over the pairs
\* still to visit.  os.remove(f) removes the bare name f from the current
\* working directory and raises when no regular file of that name is there.
RECURSIVE RemoveLoop(_, _)
RemoveLoop(pairs, st) ==
    IF pairs = <<>> \/ st.raised THEN st
    ELSE LET f == pairs[1][1]
             extension == pairs[1][2]
         IN  IF endswith(f, extension)
             THEN IF st.cwd[f] = "file"
                  THEN RemoveLoop(Tail(pairs),
                                  [st EXCEPT !.cwd[f] = "absent",
                                             !.deleted = Append(@, f)])
                  ELSE [st EXCEPT !.raised = TRUE]
             ELSE RemoveLoop(Tail(pairs), st)

\* The (file, extension) pairs in the order the loops visit them.
Pairs(files, extensions) ==
    [k \in 1..(Len(files) * Len(extensions)) |->
        << files[((k - 1) \div Len(extensions)) + 1],
           extensions[((k - 1) % Len(extensions)) + 1] >>]

\* The orders os.listdir may give a set of names in.
Orders(S) ==
    {o \in [1..Cardinality(S) -> S] : \A i, j \in 1..Cardinality(S) : i # j => o[i] # o[j]}

\* The files clean(directory) finds, in each order os.listdir may give.
Listings(directory) == Orders({i \in listdir(abspath(directory)) : isfile(i)})

\* A clean that makes the queue check only after its loop.
CleanFilesUnchecked(usable, files) ==
    RemoveLoop(Pairs(files, Extensions(QUEUE)),
               [cwd |-> fs[Cwd], deleted |-> <<>>, raised |-> FALSE])

\* What clean does to the working directory: the loop runs only once
\* queue.check_queue() has passed.
CleanFiles(usable, files) ==
    IF usable
    THEN RemoveLoop(Pairs(files, Extensions(QUEUE)),
                    [cwd |-> fs[Cwd], deleted |-> <<>>, raised |-> FALSE])
    ELSE [cwd |-> fs[Cwd], deleted |-> <<>>, raised |-> FALSE]

\* clean(directory).  `files` is the list of the names found, in the order
\* os.listdir gave them.
clean(directory, usable, files) ==
    /\ CallerFree
    /\ files \in Listings(directory)
    /\ call' = [NoCall EXCEPT !.fn = "clean", !.dir = directory]
    /\ pre' = SideEffects
    /\ args' = <<>>
    /\ count' = 0
    /\ slept' = 0
    /\ stdout' = <<>>
    /\ trace' = IF usable THEN <<"check_queue">> ELSE <<"check_queue raised">>
    /\ UNCHANGED <<QUEUE, POOL, pools, handles, scripts, value, invoked, pickled>>
    /\ LET st == CleanFiles(usable, files)
       IN  /\ fs' = [fs EXCEPT ![Cwd] = st.cwd]
           /\ content' = [content EXCEPT ![Cwd] =
                              [n \in Names |-> IF st.cwd[n] = "file" THEN @[n] ELSE ""]]
           /\ deleted' = IF usable /\ ~st.raised THEN st.deleted ELSE <<>>
           /\ pc' = IF usable /\ ~st.raised THEN "returned" ELSE "raised"
           /\ result' = IF ~usable THEN Raised("check_queue", 0)
                        ELSE IF st.raised THEN Raised("OSError", 0)
                        ELSE Returned(Len(st.deleted))

----------------------------------------------------------------------------
(* The classes Job, Script and Function.                                   *)

\* A call that raises `err` in its first statements, before it has made
\* an outside call or changed an object; c is the call as the model
\* remembers it.
RaiseFirst(c, err) ==
    /\ CallerFree
    /\ call' = c
    /\ pre' = SideEffects
    /\ pc' = "raised"
    /\ trace' = <<>>
    /\ result' = Raised(err, 0)
    /\ value' = None
    /\ args' = <<>>
    /\ count' = 0
    /\ slept' = 0
    /\ stdout' = <<>>
    /\ deleted' = <<>>
    /\ UNCHANGED <<QUEUE, POOL, pools, handles, fs, scripts, content, invoked, pickled>>

\* Job(name, command, args, path, **kw).  The first statement of __init__
\* is the expression """...{arginfo}...""".format(ARGINFO), which raises
\* KeyError for every input: no attribute is set, no Script is made, and
\* the caller gets no object.  (Were it a docstring, line 216 would raise
\* UnboundLocalError: cores, like modules, partition, time, mem and
\* dependencies, is a name the method never binds.)
Job_init(name, command, arguments, kw) ==
    RaiseFirst([NoCall EXCEPT !.fn = "Job", !.name = name, !.command = command,
                              !.args = arguments, !.kw = kw],
               "KeyError")

\* Script(file_name, script).  __init__ sets self.script and then evaluates
\* os.path(abspath(file_name)): abspath is not a name of the module, so
\* the call raises NameError and the caller gets no object.
Script_init(name, script) ==
    RaiseFirst([NoCall EXCEPT !.fn = "Script", !.name = name, !.script = script],
               "NameError")

\* Function(file_name, function, args).  The first statement of __init__
\* reads sys.version, and the module does not import sys: NameError for
\* every input, whether `function` can be called or not.  __init__ holds
\* no test of `function` at all.
Function_init(name, function, arguments) ==
    RaiseFirst([NoCall EXCEPT !.fn = "Function", !.name = name,
                              !.command = function, !.args = arguments],
               "NameError")

\* os.path.exists(self.file_name)
exists(dir, name) == fs[dir][name] # "absent"

\* A write that leaves out the newline.
WrittenTextBare(script) == script

\* fout.write(self.script + '\n'): the text the file holds after the write.
WrittenText(script) == script \o "\n"

\* A flag kept by the class, so that a write marks every Script.
MarkAllWritten(objs, i) == [k \in DOMAIN objs |-> [objs[k] EXCEPT !.written = TRUE]]

\* self.written = True: the flag of this object alone.
MarkWritten(objs, i) == [objs EXCEPT ![i].written = TRUE]

\* Script.write_file(self, overwrite) on the i-th Script object.  open(.., 'w')
\* creates or truncates a regular file and raises IsADirectoryError when
\* the path is a directory.
write_file(i, overwrite) ==
    /\ CallerFree
    /\ i \in 1..Len(scripts)
    /\ call' = [NoCall EXCEPT !.fn = "write_file", !.obj = i, !.overwrite = overwrite]
    /\ pre' = SideEffects
    /\ trace' = <<>>
    /\ args' = <<>>
    /\ count' = 0
    /\ slept' = 0
    /\ stdout' = <<>>
    /\ deleted' = <<>>
    /\ UNCHANGED <<QUEUE, POOL, pools, handles, invoked, pickled>>
    /\ LET self == scripts[i]
       IN  IF overwrite \/ ~exists(self.dir, self.name)
           THEN IF fs[self.dir][self.name] = "dir"
                THEN /\ pc' = "raised"
                     /\ result' = Raised("IsADirectoryError", 0)
                     /\ value' = None
                     /\ UNCHANGED <<fs, content, scripts>>
                ELSE /\ fs' = [fs EXCEPT ![self.dir][self.name] = "file"]
                     /\ content' = [content EXCEPT ![self.dir][self.name] =
                                                      WrittenText(self.script)]
                     /\ scripts' = MarkWritten(scripts, i)
                     /\ pc' = "returned"
                     /\ result' = Returned(0)
                     /\ value' = PyPath(self.dir, self.name)
           ELSE /\ pc' = "returned"
                /\ result' = Returned(0)
                /\ value' = None
                /\ UNCHANGED <<fs, content, scripts>>

----------------------------------------------------------------------------
(* FUNC_RUNNER: the script a Function is to run.                           *)

\* A call of the callable: its positional and its keyword arguments.
Invocation(positional, keywords) == [positional |-> positional, keywords |-> keywords]

\* `if args:`
RunnerArgsGiven(arguments) == Truthy(arguments)

\* run_function(function_call, args).  `outcome` is what the callable does
\* when it is called: the value it returns, or the exception it raises.
\* FunctionError is not a name of the script: raising it raises NameError.
run_function_result(function_call, arguments, outcome) ==
    IF function_call.t # "function"
    THEN [raised |-> TRUE, out |-> PyError("NameError"), invoked |-> <<>>]
    ELSE [raised |-> outcome.t = "error",
          out |-> outcome,
          invoked |->
            << IF RunnerArgsGiven(arguments)
               THEN IF arguments.t \in {"tuple", "list"}
                    THEN Invocation(arguments.l, <<>>)
                    ELSE IF arguments.t = "dict"
                    THEN Invocation(<<>>, arguments.l)
                    ELSE Invocation(<<arguments>>, <<>>)
               ELSE Invocation(<<>>, <<>>) >>]

\* run_function, called with these arguments.
run_function(function_call, arguments, outcome) ==
    /\ CallerFree
    /\ call' = [NoCall EXCEPT !.fn = "run_function", !.command = function_call,
                              !.args = arguments, !.outcome = outcome]
    /\ pre' = SideEffects
    /\ trace' = <<>>
    /\ args' = <<>>
    /\ count' = 0
    /\ slept' = 0
    /\ stdout' = <<>>
    /\ deleted' = <<>>
    /\ UNCHANGED <<QUEUE, POOL, pools, handles, fs, scripts, content, pickled>>
    /\ LET r == run_function_result(function_call, arguments, outcome)
       IN  /\ invoked' = r.invoked
           /\ pc' = IF r.raised THEN "raised" ELSE "returned"
           /\ result' = IF r.raised THEN Raised(r.out.s, 0) ELSE Returned(0)
           /\ value' = IF r.raised THEN None ELSE r.out

\* What str.format puts in the place of {pickle_file} and {out_file}: the
\* path as it is, with no quotes around it.
FormatField(path) == [text |-> path, quoted |-> FALSE]

\* open(<field>, 'rb') is Python only when the field is a string literal;
\* a bare path such as /cwd/afunc.py.pickle.in is a syntax error.
Compiles(field) == field.quoted

\* The script FUNC_RUNNER.format(pickle_file=.., out_file=..) run by
\* python, the input file holding (function_call, args).  Python compiles
\* the whole script before its first statement: when it does not compile
\* nothing is run and nothing is dumped.
run_script(pickle_file, out_file, function_call, arguments, outcome) ==
    /\ CallerFree
    /\ call' = [NoCall EXCEPT !.fn = "run_script", !.command = function_call,
                              !.args = arguments, !.outcome = outcome]
    /\ pre' = SideEffects
    /\ trace' = <<>>
    /\ args' = <<>>
    /\ count' = 0
    /\ slept' = 0
    /\ stdout' = <<>>
    /\ deleted' = <<>>
    /\ value' = None
    /\ UNCHANGED <<QUEUE, POOL, pools, handles, fs, scripts, content>>
    /\ IF Compiles(FormatField(pickle_file)) /\ Compiles(FormatField(out_file))
       THEN LET r == run_function_result(function_call, arguments, outcome)
            IN  /\ invoked' = r.invoked
                /\ pickled' = [exists |-> TRUE, obj |-> r.out]
                /\ pc' = "returned"
                /\ result' = Returned(0)
       ELSE /\ invoked' = <<>>
            /\ pickled' = pickled
            /\ pc' = "raised"
            /\ result' = Raised("SyntaxError", 0)

----------------------------------------------------------------------------
(* Inputs.                                                                 *)

Script == "job.cluster"

\* What a dependency list may hold: job numbers as ints and as strings,
\* and what is neither a number nor a Job.
DepItems == {PyInt(3), PyInt(12), PyStr("7"), PyJob(4821)}

DepLists == UNION {[1..k -> DepItems] : k \in 0..MaxDeps}

Dependencies ==
    {None, PyInt(0), PyInt(3), PyStr(""), PyStr("7"), PyStr("abc"), PyJob(4821),
     PySet(<<PyInt(3)>>), PyList(<<PyFloat("1.5")>>), PyList(<<PyStr("abc")>>),
     PyList(<<PyInt(3), PyStr("abc")>>), PyTuple(<<>>),
     PyTuple(<<PyInt(3), PyStr("7")>>)}
    \cup {PyList(l) : l \in DepLists}

FewDependencies == {None, PyList(<<PyInt(3), PyStr("7")>>), PyJob(4821)}

Threads == {None} \cup {PyInt(k) : k \in 0..MaxThreads}

SlurmSample ==
    <<"S", "u", "b", "m", "i", "t", "t", "e", "d", " ", "b", "a", "t", "c", "h",
      " ", "j", "o", "b", " ", "4", "8", "2", "1", "\n">>

TorqueSample ==
    <<"4", "8", "2", "1", ".", "h", "e", "a", "d", "n", "o", "d", "e", "\n">>

ErrorSample ==
    <<"s", "b", "a", "t", "c", "h", ":", " ", "e", "r", "r", "o", "r", "\n">>

SampleOutputs == {SlurmSample, TorqueSample, ErrorSample, <<>>}

Chars == {"j", " ", "\n", ".", "4", "8"}

Outputs == SampleOutputs \cup UNION {[1..k -> Chars] : k \in 0..MaxOut}

NoFiles == [d \in Dirs |-> [n \in Names |-> "absent"]]

\* What a directory may hold: a regular file of any name, and a
\* subdirectory called a.cluster.
Entries ==
    (Dirs \X Names \X {"file"}) \cup (Dirs \X {<<"a", "cluster">>} \X {"dir"})

FsOf(entries) ==
    [d \in Dirs |-> [n \in Names |->
        IF \E i \in DOMAIN entries : entries[i] = <<d, n, "dir">> THEN "dir"
        ELSE IF \E i \in DOMAIN entries : entries[i] = <<d, n, "file">> THEN "file"
        ELSE "absent"]]

\* The file systems with at most MaxFiles entries.
FileSystems == {FsOf(e) : e \in UNION {[1..k -> Entries] : k \in 0..MaxFiles}}

\* The directory of section 8 of the specification, with the scripts of a
\* slurm job beside it, once as the working directory and once elsewhere.
SampleFiles(dir) ==
    [d \in Dirs |-> [n \in Names |->
        IF d = dir /\ n \in {<<"a", "cluster", "out">>, <<"a", "cluster">>,
                             <<"a", "cluster", "sbatch">>, <<"b", "txt">>}
        THEN "file" ELSE "absent"]]

\* Commands of a job: shell strings and functions.
Commands == {PyStr("echo"), PyFunction("f")}

\* Arguments of a job's command.
Arguments == {None, PyInt(0), PyStr("x"), PyTuple(<<PyStr("x"), PyStr("y")>>)}

\* What Function may be asked to wrap.
Wrapped == {PyFunction("f"), PyStr("echo"), PyInt(3), None}

\* What the runner may find as args: nothing, values Python takes for
\* false, a single value, sequences, mappings.
RunnerArgs ==
    { None, PyInt(0), PyBool(FALSE), PyStr(""), PyInt(5), PyStr("x"),
      PyTuple(<<>>), PyTuple(<<PyInt(1), PyInt(2)>>), PyList(<<PyInt(1)>>),
      PyDict(<<>>), PyDict(<<PyStr("k"), PyInt(1)>>), PySet(<<PyInt(1)>>) }

\* What the callable does: it returns a value, or it raises.
Outcomes == {PyInt(42), None, PyError("ZeroDivisionError")}

\* Resource arguments: none given, one given, all given.
KwSamples ==
    { NoKw,
      [NoKw EXCEPT !.partition = PyStr("long")],
      [NoKw EXCEPT !.modules = PyList(<<PyStr("gcc"), PyStr("python")>>)],
      [partition |-> PyStr("long"), time |-> PyStr("01:00:00"),
       mem |-> PyInt(4000), modules |-> PyStr("gcc")] }

\* The text of a file that was there before the process began.
OldText == "old\n"

ContentOf(files) ==
    [d \in Dirs |-> [n \in Names |-> IF files[d][n] = "file" THEN OldText ELSE ""]]

\* The text of the i-th Script object.
Text(i) == "echo " \o NatStr(i)

\* Where the Script objects of the model have their files.
ScriptPaths ==
    { <<"/cwd", <<"a", "cluster", "sbatch">> >>, <<"/cwd", <<"a", "cluster">> >>,
      <<"/other", <<"a", "cluster", "sbatch">> >> }

\* MaxScripts Script objects that no write_file has been called on.  (No
\* call of Script(...) or Function(...) gives one: what the model takes
\* for given is an object of the class with its script and file_name set.)
ScriptObjects ==
    { [i \in 1..MaxScripts |->
          [dir |-> at[i][1], name |-> at[i][2], script |-> Text(i), written |-> FALSE]] :
      at \in [1..MaxScripts -> ScriptPaths] }

\* What is at those paths when the process begins: nothing, a file, or
\* for a.cluster a directory.
ScriptFileSystems ==
    { [d \in Dirs |-> [n \in Names |->
          IF <<d, n>> \in ScriptPaths THEN k[<<d, n>>] ELSE "absent"]] :
      k \in { f \in [ScriptPaths -> {"absent", "file", "dir"}] :
                 \A q \in ScriptPaths : f[q] = "dir" <=> (f[q] # "absent" /\ q[2] = <<"a", "cluster">>) } }

\* The output file of the function runner, before the runner has run.
NoPickle == [exists |-> FALSE, obj |-> None]

----------------------------------------------------------------------------
(* Specifications.                                                         *)

\* The process before its first call: its backend, the files it finds and
\* the Script objects it holds.
InitObjects(queues, filesystems, objs) ==
    /\ QUEUE \in queues
    /\ fs \in filesystems
    /\ POOL = 0
    /\ pools = <<>>
    /\ handles = <<>>
    /\ pc = "idle"
    /\ call = NoCall
    /\ args = <<>>
    /\ count = 0
    /\ slept = 0
    /\ stdout = <<>>
    /\ result = [kind |-> "none", err |-> "", val |-> 0]
    /\ deleted = <<>>
    /\ trace = <<>>
    /\ scripts \in objs
    /\ content = ContentOf(fs)
    /\ pre = [fs |-> fs, POOL |-> 0, pools |-> <<>>, enqueued |-> 0,
              content |-> content, scripts |-> scripts]
    /\ value = None
    /\ invoked = <<>>
    /\ pickled = NoPickle

InitWith(queues, filesystems) == InitObjects(queues, filesystems, {<<>>})

\* The whole module, on few inputs.
Init == InitWith({"slurm", "torque", "normal"}, {SampleFiles("/cwd"), SampleFiles("/other")})

Next ==
    \/ submit
    \/ make_job_file
    \/ \E command \in Commands : Job_init("a", command, None, NoKw)
    \/ Script_init("a.cluster", Text(1))
    \/ Function_init("afunc.py", PyFunction("f"), None)
    \/ \E d \in FewDependencies, t \in {None, PyInt(2)}, usable \in BOOLEAN :
          Len(handles) < MaxJobs /\ submit_file(Script, d, t, usable)
    \/ \E out \in {SlurmSample, TorqueSample} : check_output(TRUE, out)
    \/ check_output(FALSE, <<>>)
    \/ sleep
    \/ \E h \in 1..MaxJobs : worker_take(h)
    \/ \E h \in 1..MaxJobs : worker_done(h)
    \/ \E dir \in {".", "/other"}, usable \in BOOLEAN :
          \E files \in Listings(dir) : clean(dir, usable, files)

Spec == Init /\ [][Next]_vars

\* submit_file under slurm and torque, on every kind of dependencies.
InitSubmit == InitWith({"slurm", "torque"}, {NoFiles})

NextSubmit ==
    \/ \E d \in Dependencies, usable \in BOOLEAN : submit_file(Script, d, None, usable)
    \/ \E out \in SampleOutputs : check_output(TRUE, out)
    \/ check_output(FALSE, <<>>)
    \/ sleep

SpecSubmit == InitSubmit /\ [][NextSubmit]_vars

\* The parsing of the job number, on every short standard output.
NextParse ==
    \/ submit_file(Script, None, None, TRUE)
    \/ \E out \in Outputs : check_output(TRUE, out)

SpecParse == InitSubmit /\ [][NextParse]_vars

\* submit_file in normal mode and the pool's workers.
InitPool == InitWith({"normal"}, {NoFiles})

NextPool ==
    \/ \E d \in FewDependencies, t \in Threads, usable \in BOOLEAN :
          Len(handles) < MaxJobs /\ submit_file(Script, d, t, usable)
    \/ \E h \in 1..MaxJobs : worker_take(h)
    \/ \E h \in 1..MaxJobs : worker_done(h)

SpecPool == InitPool /\ [][NextPool]_vars

\* The pool's workers are processes of their own: one that can take a job
\* does, and a command that runs comes to an end.
FairSpecPool ==
    /\ SpecPool
    /\ \A h \in 1..MaxJobs : WF_vars(worker_take(h)) /\ WF_vars(worker_done(h))

\* clean on every small directory.
InitClean == InitWith({"slurm", "torque", "normal"}, FileSystems)

NextClean ==
    \E dir \in {".", "/cwd", "/other"}, usable \in BOOLEAN :
        \E files \in Listings(dir) : clean(dir, usable, files)

SpecClean == InitClean /\ [][NextClean]_vars

\* The constructors of the three classes, on every kind of argument.
InitClasses == InitWith({"slurm", "torque", "normal"}, {NoFiles})

NextClasses ==
    \/ \E command \in Commands, arguments \in Arguments, kw \in KwSamples :
          Job_init("a", command, arguments, kw)
    \/ Script_init("a.cluster", Text(1))
    \/ \E function \in Wrapped, arguments \in Arguments :
          Function_init("afunc.py", function, arguments)

SpecClasses == InitClasses /\ [][NextClasses]_vars

\* The function runner: run_function, and the generated script as a whole.
NextRunner ==
    \/ \E function_call \in Wrapped, arguments \in RunnerArgs, outcome \in Outcomes :
          run_function(function_call, arguments, outcome)
    \/ \E function_call \in Wrapped, arguments \in RunnerArgs, outcome \in Outcomes :
          run_script("/cwd/afunc.py.pickle.in", "/cwd/afunc.py.pickle.out",
                     function_call, arguments, outcome)

SpecRunner == InitWith({"normal"}, {NoFiles}) /\ [][NextRunner]_vars

\* Script objects, their files and clean.
InitScript == InitObjects({"slurm"}, ScriptFileSystems, ScriptObjects)

NextScript ==
    \/ \E i \in 1..MaxScripts, overwrite \in BOOLEAN : write_file(i, overwrite)
    \/ \E dir \in {".", "/other"} :
          \E files \in Listings(dir) : clean(dir, TRUE, files)

SpecScript == InitScript /\ [][NextScript]_vars

----------------------------------------------------------------------------
(* The claims.                                                             *)

Occurrences(events, e) == Cardinality({i \in 1..Len(events) : events[i] = e})

Scheduler == QUEUE \in {"slurm", "torque"}

\* The call under way, or just ended, is submit_file under a scheduler.
InSubmitFile == Scheduler /\ call.fn = "submit_file"

\* The current call has run the backend's submit command.
CommandRun == Occurrences(trace, "exit 0") + Occurrences(trace, "exit 1") > 0

\* No command and no sleep can follow in the current call.
CallOver ==
    /\ ~ENABLED check_output(FALSE, <<>>)
    /\ ~ENABLED check_output(TRUE, SlurmSample)
    /\ ~ENABLED sleep

\* k failed commands, a sleep after each.
RECURSIVE Failures(_)
Failures(k) == IF k = 0 THEN <<>> ELSE Failures(k - 1) \o <<"exit 1", "sleep">>

----------------------------------------------------------------------------
(* What the specification says the job number is, read off the standard    *)
(* output without the code's own steps.                                    *)

NonBlank(s) == {i \in 1..Len(s) : s[i] \notin Whitespace}

Largest(S) == CHOOSE i \in S : \A j \in S : j <= i

Smallest(S) == CHOOSE i \in S : \A j \in S : i <= j

\* The trailing token delimited by white space: from after the last white
\* space that precedes the last visible character, to that character.
TrailingToken(s) ==
    IF NonBlank(s) = {} THEN <<>>
    ELSE LET last == Largest(NonBlank(s))
             blanks == {i \in 1..last : s[i] \in Whitespace}
         IN  SubSeq(s, IF blanks = {} THEN 1 ELSE Largest(blanks) + 1, last)

\* The visible characters before the first '.'.
BeforeFirstDot(s) ==
    LET dots == {i \in 1..Len(s) : s[i] = "."}
        upto == IF dots = {} THEN Len(s) ELSE Smallest(dots) - 1
    IN  SelectSeq(SubSeq(s, 1, upto), LAMBDA c : c \notin Whitespace)

IsNumber(token) == token # <<>> /\ \A i \in 1..Len(token) : token[i] \in DigitChars

\* The job number the backend's output announces.
Announced(queue, out) ==
    IF queue = "slurm" THEN TrailingToken(out) ELSE BeforeFirstDot(out)

----------------------------------------------------------------------------

----------------------------------------------------------------------------

\* The items of a dependencies argument.
Items(d) ==
    IF ~Truthy(d) THEN <<>>
    ELSE IF d.t \in {"list", "tuple", "set"} THEN d.l ELSE <<d>>

\* A string of decimal digits only.
DigitString(s) == s \in {NatStr(n) : n \in 0..99}

\* An element a dependency list may hold: an int, a digit string, a Job.
ValidDependency(v) == v.t \in {"int", "Job"} \/ (v.t = "str" /\ DigitString(v.s))

\* C4: dependencies with an element that is neither an int, a digit string
\* nor a Job are rejected by submit_file before any command is run: no
\* command runs and the call does not return.
C4_BadDependencyRejected ==
    (InSubmitFile /\ \E i \in 1..Len(Items(call.deps)) : ~ValidDependency(Items(call.deps)[i]))
        => ~CommandRun /\ pc # "returned"

\* The identifier a dependency stands for: the number itself, the digits,
\* the identifier the Job's own submission returned.
Identifier(v) == IF v.t = "str" THEN v.s ELSE NatStr(v.n)

\* The flag that names the identifiers `ids` in order.
RECURSIVE After(_, _, _)
After(ids, each, sep) ==
    IF ids = <<>> THEN ""
    ELSE After(SubSeq(ids, 1, Len(ids) - 1), each, sep)
         \o (IF Len(ids) > 1 THEN sep ELSE "") \o each \o ids[Len(ids)]

ExpectedFlag(queue, ids) ==
    IF queue = "slurm" THEN "--dependency=afterok:" \o After(ids, "", ":")
    ELSE "-W depend=" \o After(ids, "afterok:", ",")

ExpectedArgs(queue, ids) ==
    <<IF queue = "slurm" THEN "sbatch" ELSE "qsub">>
    \o (IF ids = <<>> THEN <<>> ELSE <<ExpectedFlag(queue, ids)>>)
    \o <<call.script>>

\* C5: when a job is submitted with a dependency that is a Job, the flag
\* handed to the backend names the identifier that Job's own submission
\* returned, and no other rendering of the Job object.
C5_JobReferenceResolved ==
    (/\ InSubmitFile
     /\ CommandRun
     /\ call.deps.t \in {"list", "tuple"}
     /\ \A i \in 1..Len(call.deps.l) : ValidDependency(call.deps.l[i])
     /\ \E i \in 1..Len(call.deps.l) : call.deps.l[i].t = "Job")
        => args = ExpectedArgs(QUEUE, [i \in 1..Len(call.deps.l) |-> Identifier(call.deps.l[i])])

\* A list of job numbers: ints and digit strings.
JobNumbers(d) ==
    /\ d.t \in {"list", "tuple"}
    /\ \A i \in 1..Len(d.l) : d.l[i].t = "int" \/ (d.l[i].t = "str" /\ DigitString(d.l[i].s))

\* C6: for a non-empty list of ints and digit strings submit_file hands the
\* backend exactly one dependency flag, naming every identifier once in the
\* order of the list: afterok: and the identifiers joined by ':' under
\* slurm, depend= and afterok:<id> items joined by ',' under torque; for no
\* dependencies or an empty list it hands it no flag.
C6_DependencyFlag ==
    (InSubmitFile /\ (pc \in {"check_output", "sleep"} \/ CommandRun)) =>
        /\ JobNumbers(call.deps) =>
              args = ExpectedArgs(QUEUE, [i \in 1..Len(call.deps.l) |-> Identifier(call.deps.l[i])])
        /\ call.deps = None => Len(args) = 2
        /\ (JobNumbers(call.deps) /\ call.deps.l # <<>>) => Len(args) = 3
        /\ call.deps = PyList(<<PyInt(3), PyStr("7")>>) =>
              args[2] = IF QUEUE = "slurm" THEN "--dependency=afterok:3:7"
                        ELSE "-W depend=afterok:3,afterok:7"

\* The command has run with the flag of a list of two job numbers, the
\* second of two digits.
C6_Witness ==
    /\ InSubmitFile
    /\ QUEUE = "slurm"
    /\ CommandRun
    /\ call.deps = PyList(<<PyStr("7"), PyInt(12)>>)
    /\ args = <<"sbatch", "--dependency=afterok:7:12", Script>>

\* What follows the last space of the output, its trailing white space
\* dropped, without the white space around it.
SpaceToken(s) ==
    IF NonBlank(s) = {} THEN <<>>
    ELSE LET last == Largest(NonBlank(s))
             spaces == {i \in 1..last : s[i] = " "}
             from == IF spaces = {} THEN 1 ELSE Largest(spaces) + 1
         IN  SubSeq(s, Smallest({i \in from..last : s[i] \notin Whitespace}), last)

\* The text before the first '.' of the output, without the white space
\* around it.
DotToken(s) ==
    LET dots == {i \in 1..Len(s) : s[i] = "."}
        upto == IF dots = {} THEN Len(s) ELSE Smallest(dots) - 1
        seen == {i \in 1..upto : s[i] \notin Whitespace}
    IN  IF seen = {} THEN <<>> ELSE SubSeq(s, Smallest(seen), Largest(seen))

\* The command of the current call has exited zero with this output.
ExitedZero == InSubmitFile /\ Occurrences(trace, "exit 0") = 1

\* C7 as stated: the identifier submit_file returns is the integer parsed
\* from the output of the command that exited zero: under slurm its
\* trailing token delimited by white space ("Submitted batch job 4821" gives
\* 4821), under torque the integer before the first '.' ("4821.headnode"
\* gives 4821).
C7_TrailingTokenReturned ==
    (ExitedZero /\ IsNumber(Announced(QUEUE, stdout))) =>
        /\ pc = "returned"
        /\ result = Returned(DecimalValue(Announced(QUEUE, stdout)))

\* C7, amended: under slurm the identifier is the integer int() reads from
\* what follows the last space of the output, its trailing white space
\* dropped; under torque from what precedes the first '.'.  The call
\* returns it when that text is a number and raises otherwise: a last
\* token that follows a newline or a tab, not a space, is not returned.
C7_IdentifierParsed ==
    ExitedZero =>
        LET token == IF QUEUE = "slurm" THEN SpaceToken(stdout) ELSE DotToken(stdout)
        IN  /\ IsNumber(token) => result = Returned(DecimalValue(token))
            /\ ~IsNumber(token) => result = Raised("ValueError", 0)
            /\ pc = result.kind
            /\ (QUEUE = "slurm" /\ stdout = SlurmSample) => result = Returned(4821)
            /\ (QUEUE = "torque" /\ stdout = TorqueSample) => result = Returned(4821)

\* An output of two tokens, each a number: the last one is returned.
C7_Witness ==
    /\ InSubmitFile
    /\ QUEUE = "slurm"
    /\ pc = "returned"
    /\ stdout = <<"4", " ", "8">>
    /\ result.val = 8

----------------------------------------------------------------------------

\* The size a call asks the pool to have: its thread count, or the default
\* when it gives none (None, or 0, which Python takes for none).
AskedSize(threads) == IF threads.t = "int" /\ threads.n > 0 THEN threads.n ELSE CpuCount

\* C8: over any sequence of normal-mode submissions the pool is created at
\* most once, by the first submission, with the size that call asks for
\* (the default when it gives none); every later submission uses the same
\* pool and leaves its size as it is, whatever thread count it passes, and
\* the pool is never torn down.
C8_PoolCreatedOnce ==
    /\ [](/\ Len(pools) <= 1
          /\ POOL = Len(pools)
          /\ handles # <<>> => POOL = 1
          /\ \A h \in 1..Len(handles) : handles[h].pool = 1)
    /\ [][/\ POOL # 0 => POOL' = POOL /\ pools' = pools
          /\ Len(handles') > Len(handles) => POOL' = 1
          /\ (POOL = 0 /\ POOL' # 0) =>
                /\ handles = <<>> /\ Len(handles') = 1
                /\ pools' = <<AskedSize(call'.threads)>>]_vars

\* A later submission has passed a thread count that is not the pool's size.
C8_Witness ==
    /\ QUEUE = "normal"
    /\ pc = "returned"
    /\ Len(handles) >= 2
    /\ pools = <<2>>
    /\ call.threads = PyInt(1)

Executing == {h \in 1..Len(handles) : handles[h].state = "running"}

\* C9: in normal mode, for any number of jobs and a pool of size K, never
\* more than K jobs run at once, a submission returns its handle without
\* waiting for the command, and the handle of every job enqueued is
\* completed in the end.
C9_BoundedParallelism ==
    /\ [](POOL # 0 => Cardinality(Executing) <= pools[POOL])
    /\ [][Len(handles') > Len(handles) =>
            /\ pc' = "returned"
            /\ result' = Returned(Len(handles'))
            /\ handles'[Len(handles')].state = "queued"
            /\ \A h \in 1..Len(handles) : handles'[h] = handles[h]]_vars
    /\ \A h \in 1..MaxJobs :
          (Len(handles) >= h) ~> (Len(handles) >= h /\ handles[h].state = "done")

\* Every worker of a pool of one is busy, a job waits, and a third
\* submission has returned all the same.
C9_Witness ==
    /\ QUEUE = "normal"
    /\ pools = <<1>>
    /\ Len(handles) = 3
    /\ pc = "returned"
    /\ result = Returned(3)
    /\ handles[1].state = "running"
    /\ handles[2].state = "queued"
    /\ handles[3].state = "queued"

----------------------------------------------------------------------------

\* The name ends with one of the suffixes of the backend.
HasSuffix(queue, n) ==
    LET last == n[Len(n)]
        cluster == Len(n) >= 3 /\ n[Len(n) - 1] = "cluster"
    IN  \/ cluster /\ last \in {"err", "out"}
        \/ queue = "normal" /\ Len(n) >= 2 /\ last = "cluster"
        \/ queue = "slurm" /\ cluster /\ last \in {"sbatch", "script"}
        \/ queue = "torque" /\ cluster /\ last = "qsub"

\* The regular files of the directory that the backend's suffixes match.
Matching(files, directory) ==
    {n \in Names : files[directory][n] = "file" /\ HasSuffix(QUEUE, n)}

\* C10: for every backend and every directory, the working directory or
\* not, clean(directory) removes exactly the regular files of that
\* directory whose names end with a suffix of the backend, leaves every
\* other file in place, returns exactly the files removed, each once, and
\* returns the empty list without error when nothing matches.
C10_CleanExact ==
    (call.fn = "clean" /\ result.err # "check_queue") =>
        LET directory == abspath(call.dir)
            gone == Matching(pre.fs, directory)
        IN  /\ pc = "returned"
            /\ \A d \in Dirs, n \in Names :
                  fs[d][n] = IF d = directory /\ n \in gone THEN "absent" ELSE pre.fs[d][n]
            /\ {deleted[i] : i \in 1..Len(deleted)} = gone
            /\ Len(deleted) = Cardinality(gone)

\* The same, for clean run on the working directory.
CleanExactInCwd == abspath(call.dir) = Cwd => C10_CleanExact

----------------------------------------------------------------------------

\* A write_file call has ended.
WriteFileOver == call.fn = "write_file" /\ pc \in {"returned", "raised"}

\* Nothing of the files and of the Script objects has changed in the call.
NothingWritten == fs = pre.fs /\ content = pre.content /\ scripts = pre.scripts

Wrote(i) ==
    /\ call'.fn = "write_file"
    /\ call'.obj = i
    /\ pc' = "returned"
    /\ value' = PyPath(scripts[i].dir, scripts[i].name)
    /\ content'[scripts[i].dir][scripts[i].name] = scripts[i].script \o "\n"

----------------------------------------------------------------------------

\* The i-th Script has written its file, the file is in the directory the
\* current call names, and its name is one the naming table gives the
\* backend's artifacts.
ArtifactIn(i, directory) ==
    /\ pre.scripts[i].written
    /\ pre.scripts[i].dir = abspath(directory)
    /\ HasSuffix(QUEUE, pre.scripts[i].name)
    /\ pre.content[pre.scripts[i].dir][pre.scripts[i].name] = pre.scripts[i].script \o "\n"

\* C11: once artifacts are written into a directory and clean has run on
\* that directory under the same backend, none of the files written remains
\* on disk, and the Script objects keep their text, paths and written flags.
C11_CleanRemovesArtifacts ==
    (call.fn = "clean" /\ pc = "returned") =>
        /\ scripts = pre.scripts
        /\ \A i \in 1..Len(scripts) :
              ArtifactIn(i, call.dir) => fs[scripts[i].dir][scripts[i].name] = "absent"

----------------------------------------------------------------------------
(* What the specification says a Job is made of.                           *)

Ended == pc \in {"returned", "raised"}

\* hasattr(v, '__call__')
Callable(v) == v.t = "function"

\* A path as text.
PathText(dir, name) == dir \o "/" \o join(".", name)

\* The lines of the text of the Script object k.
Lines(k) == scripts[k].script

HasLine(k, line) == \E j \in 1..Len(Lines(k)) : Lines(k)[j] = line

\* The call Job(...) has given the caller a Job; value.l holds its attributes
\* submission, exec_script and function, each a Script object of the
\* process or 0 for None.
JobBuilt ==
    /\ call.fn = "Job"
    /\ pc = "returned"
    /\ value.t = "Job"
    /\ Len(value.l) = 3
    /\ value.l[1] \in 1..Len(scripts)

\* The file name the naming table gives the submission artifact.
SubmissionName(queue, name) ==
    CASE queue = "slurm" -> <<name, "cluster", "sbatch">>
      [] queue = "torque" -> <<name, "cluster", "qsub">>
      [] OTHER -> <<name, "cluster">>

\* C12: the paths a Job derives follow the naming table: the submission
\* artifact is <name>.cluster.sbatch, .cluster.qsub or .cluster; slurm
\* alone has an execution artifact, <name>.cluster.script, and its
\* submission script launches exactly that path; stdout and stderr are
\* <name>.cluster.out and <name>.cluster.err.
C12_PathsFollowTable ==
    (call.fn = "Job" /\ Ended) =>
        /\ JobBuilt
        /\ scripts[value.l[1]].name = SubmissionName(QUEUE, call.name)
        /\ IF QUEUE = "slurm"
           THEN /\ value.l[2] \in 1..Len(scripts)
                /\ scripts[value.l[2]].name = <<call.name, "cluster", "script">>
                /\ HasLine(value.l[1],
                           "srun bash " \o PathText(scripts[value.l[2]].dir,
                                                    scripts[value.l[2]].name))
                /\ HasLine(value.l[1], "#SBATCH -o " \o call.name \o ".cluster.out")
                /\ HasLine(value.l[1], "#SBATCH -e " \o call.name \o ".cluster.err")
           ELSE value.l[2] = 0

----------------------------------------------------------------------------

\* C15: in the submit pipeline every artifact of the job is written to
\* disk before the backend's submit command is run or the job is enqueued
\* on the pool, and the path handed to the backend is the path of the
\* written submission artifact: a submit call that the queue check does
\* not stop has a written submission script on disk and has handed its
\* path to the backend.
C15_ArtifactsBeforeSubmit ==
    (call.fn = "submit" /\ Ended /\ result # Raised("check_queue", 0)) =>
        /\ CommandRun \/ Len(handles) > pre.enqueued
        /\ \E i \in 1..Len(scripts) :
              /\ scripts[i].written
              /\ fs[scripts[i].dir][scripts[i].name] = "file"
              /\ args # <<>>
              /\ args[Len(args)] \in
                    { PathText(scripts[i].dir, scripts[i].name),
                      "bash " \o PathText(scripts[i].dir, scripts[i].name) }

\* The errors by which the module rejects a value it was given.
ConstructionErrors == {"ClusterError", "FunctionError", "TypeError"}

\* C16: wrapping what cannot be called in a Function is a construction
\* error: the constructor rejects the value, with nothing written, and
\* the test is not left to the generated script.
C16_NonCallableRejected ==
    (call.fn = "Function" /\ Ended /\ ~Callable(call.command)) =>
        /\ pc = "raised"
        /\ result.err \in ConstructionErrors
        /\ fs = pre.fs
        /\ scripts = pre.scripts

\* The script of the Job that holds the command: the execution script
\* under slurm, the submission script otherwise.
CommandScript == IF QUEUE = "slurm" THEN value.l[2] ELSE value.l[1]

\* The words the arguments of a shell command add to it.
ArgWords(a) ==
    IF a = None THEN <<>>
    ELSE IF a.t \in {"tuple", "list"} THEN [i \in 1..Len(a.l) |-> str(a.l[i])]
    ELSE <<str(a)>>

\* C19: a Job whose command is callable has a function artifact, and the
\* command in its script is the invocation of that artifact's file with
\* no argument appended; a Job whose command is a shell string has no
\* function artifact, and the command in its script is the string with
\* its arguments.
C19_FunctionRewritten ==
    (call.fn = "Job" /\ Ended) =>
        /\ JobBuilt
        /\ CommandScript \in 1..Len(scripts)
        /\ IF Callable(call.command)
           THEN /\ value.l[3] \in 1..Len(scripts)
                /\ \E python \in {"python2 ", "python3 "} :
                      HasLine(CommandScript,
                              python \o PathText(scripts[value.l[3]].dir,
                                                 scripts[value.l[3]].name))
           ELSE /\ value.l[3] = 0
                /\ HasLine(CommandScript,
                           join(" ", <<call.command.s>> \o ArgWords(call.args)))

\* The lines of the scripts of the Job the call has built.
JobLines ==
    Lines(value.l[1]) \o (IF value.l[2] \in 1..Len(scripts) THEN Lines(value.l[2]) ELSE <<>>)

\* How often the line occurs in the scripts of the Job.
Times(line) == Cardinality({j \in 1..Len(JobLines) : JobLines[j] = line})

\* The directive that asks the backend for the value v of a resource field.
Directive(queue, field, v) ==
    CASE queue = "slurm" /\ field = "partition" -> "#SBATCH -p " \o str(v)
      [] queue = "slurm" /\ field = "time" -> "#SBATCH --time=" \o str(v)
      [] queue = "slurm" /\ field = "mem" -> "#SBATCH --mem=" \o str(v)
      [] queue = "torque" /\ field = "partition" -> "#PBS -q " \o str(v)
      [] queue = "torque" /\ field = "time" -> "#PBS -l walltime=" \o str(v)
      [] queue = "torque" /\ field = "mem" -> "#PBS -l mem=" \o str(v) \o "MB"
      [] OTHER -> "# " \o field \o " " \o str(v)

\* The modules of a call, as a list.
ModuleList(m) ==
    IF m = None THEN <<>> ELSE IF m.t = "str" THEN <<m>> ELSE m.l

\* C20: the rendered text of a Job holds a directive for partition, wall
\* time or memory, and a module-load line for a module, if and only if the
\* field is set: no line for an unset field, exactly one line per value
\* of a set one.
C20_DirectiveIffSet ==
    (call.fn = "Job" /\ Ended) =>
        /\ JobBuilt
        /\ \A field \in {"partition", "time", "mem"} :
              IF call.kw[field] = None
              THEN Times(Directive(QUEUE, field, None)) = 0
              ELSE Times(Directive(QUEUE, field, call.kw[field])) = 1
        /\ \A j \in 1..Len(ModuleList(call.kw.modules)) :
              Times("module load " \o ModuleList(call.kw.modules)[j].s) = 1
        /\ call.kw.modules = None => Times("module load None") = 0

----------------------------------------------------------------------------

\* C17: when the generated script of a function job is run, the output
\* file exists afterwards and holds the value the function returned, or
\* the error it raised; the error is stored, and the script does not fail.
C17_ResultStored ==
    (call.fn = "run_script" /\ Ended /\ Callable(call.command)) =>
        /\ pc = "returned"
        /\ pickled = [exists |-> TRUE, obj |-> call.outcome]

\* C18: the runner calls the callable with positional arguments when args
\* is a sequence, with keyword arguments when it is a mapping, with args
\* as its single argument otherwise, and with no argument only when no
\* args were supplied: a supplied 0, False or "" is passed on.
C18_ArgsDispatch ==
    (call.fn = "run_function" /\ Ended /\ Callable(call.command)) =>
        invoked =
          << IF call.args = None THEN Invocation(<<>>, <<>>)
             ELSE IF call.args.t \in {"tuple", "list"}
             THEN Invocation(call.args.l, <<>>)
             ELSE IF call.args.t = "dict" THEN Invocation(<<>>, call.args.l)
             ELSE Invocation(<<call.args>>, <<>>) >>

----------------------------------------------------------------------------

\* The lines the design rule puts before the command of the job `name`
\* run in `dir` with the modules m: the module loads, the change of
\* directory, the time stamp and the announcement.
PreBlock(name, m, dir) ==
    [j \in 1..Len(ModuleList(m)) |-> "module load " \o ModuleList(m)[j].s]
    \o <<"cd " \o dir, "date +'%d-%H:%M:%S'", "echo \"Running " \o name \o "\"">>

\* The lines the design rule puts after the command: the exit code kept,
\* "Done", the time stamp, and the diagnostic on standard error.
PostBlock ==
    <<"exitcode=$?", "echo Done", "date +'%d-%H:%M:%S'",
      "if [[ $exitcode != 0 ]]; then", "    echo Exited with code: $? >&2", "fi">>

\* The lines of the Script object k that are not empty.
VisibleLines(k) == SelectSeq(Lines(k), LAMBDA line : line # "")

\* C21: for the same name, command and modules the lines around the
\* command are the same under the three backends: whatever QUEUE is, the
\* script of a Job that runs the command (slurm's execution script,
\* torque's and the local submission script) ends with one block of the
\* name and the modules alone, the command in it, after the header.
C21_BlocksAlike ==
    (call.fn = "Job" /\ Ended) =>
        /\ JobBuilt
        /\ CommandScript \in 1..Len(scripts)
        /\ LET text == VisibleLines(CommandScript)
               before == PreBlock(call.name, call.kw.modules, Cwd)
               at == Len(text) - Len(PostBlock)
           IN  /\ at > Len(before)
               /\ SubSeq(text, at - Len(before), at - 1) = before
               /\ SubSeq(text, at + 1, Len(text)) = PostBlock
               /\ \A j \in 1..(at - Len(before) - 1) :
                     text[j] \notin {before[i] : i \in 1..Len(before)}

----------------------------------------------------------------------------

\* The text int() is given, without the white space around it.
ParsedText == IF QUEUE = "slurm" THEN SpaceToken(stdout) ELSE DotToken(stdout)

\* C22: under slurm or torque only a nonzero exit of the submit command is
\* retried: every sleep follows a run that exited nonzero, a run that exits
\* zero is the last step of the call, and when its output is not an integer
\* identifier submit_file raises the ValueError at once, having slept only
\* for the failures before it.  One call holds at most one run that exited
\* zero.
C22_ExitZeroNotRetried ==
    InSubmitFile =>
        /\ Occurrences(trace, "exit 0") <= 1
        /\ \A i \in 1..Len(trace) :
              /\ trace[i] = "sleep" => (i > 1 /\ trace[i - 1] = "exit 1")
              /\ trace[i] = "exit 0" =>
                    /\ i = Len(trace)
                    /\ pc \in {"returned", "raised"}
                    /\ CallOver
        /\ (ExitedZero /\ ~IsNumber(ParsedText)) =>
              /\ pc = "raised"
              /\ result = Raised("ValueError", 0)
              /\ slept = Occurrences(trace, "exit 1")
              /\ count = Occurrences(trace, "exit 1")

\* Two failures, then a run that exits zero and prints no identifier.
C22_Witness ==
    /\ InSubmitFile
    /\ pc = "raised"
    /\ result.err = "ValueError"
    /\ stdout = ErrorSample
    /\ Occurrences(trace, "exit 1") = 2
    /\ Occurrences(trace, "exit 0") = 1

============================================================================
